---- MODULE Spec2Model ----
(***************************************************************************)
(* A model of mirax/miraxfile.py: the Index.dat reader (MiraxFile.__init__ *)
(* stubs, MiraxFile.__readindex, loadpages), the coordinate decoder        *)
(* (MiraxFile.decode_tiles) and the grid mapper (MiraxFile.get_tile_xy).   *)
(*                                                                         *)
(* A file is a sequence of bytes (0..255) and a BinaryIO is that sequence  *)
(* plus a cursor fp (0-based). A Python str is the sequence of its code    *)
(* points. None is modelled by the integer -1 for `pointer` (a u32 is      *)
(* never negative) and by NoPages for `pages`. The files the reader is run  *)
(* on hold u32 fields below 2^31, which TLC's integers represent exactly;  *)
(* signed fields are decoded from their top byte down, without passing     *)
(* through 2^32.                                                           *)
(***************************************************************************)
EXTENDS Integers, Sequences, FiniteSets, TLC

\* ------------------------------------------------------------------ bounds
\* Largest n_entries a synthetic page is written with.
MaxEntries == 2
\* Pages a synthetic chain file holds (SpecLoad).
MaxSlots == 2
\* Iterations of loadpages' while loop the model follows before it stops
\* following a traversal (a cyclic chain never leaves the loop).
MaxPages == 5
\* Complete 9-byte records a synthetic coordinate blob holds.
MaxCoords == 2
\* Rows of the tile grid.
MaxRows == 4
\* Largest imagenumber_x (tiles in a row of the grid).
MaxAcross == 10

\* ----------------------------------------------------------------- helpers
Min(a, b) == IF a < b THEN a ELSE b

None == -1

\* fp.read(n) at cursor pos: the bytes that are there, at most n of them.
\* A read at or past the end of the file returns b''.
Read(f, pos, n) == SubSeq(f, pos + 1, Min(pos + n, Len(f)))

\* int.from_bytes(bs, byteorder="little"): b'' is 0.
RECURSIVE from_bytes(_)
from_bytes(bs) ==
    IF bs = <<>> THEN 0 ELSE bs[1] + 256 * from_bytes(Tail(bs))

\* int.from_bytes(fp.read(4), byteorder="little") and the cursor after it.
ReadU32(f, pos) ==
    LET bs == Read(f, pos, 4)
    IN  [val |-> from_bytes(bs), pos |-> pos + Len(bs)]

\* bytes.decode("utf-8"): the code points, or DecodeError where Python raises
\* UnicodeDecodeError (well-formed UTF-8 only, Unicode table 3-7).
DecodeError == <<-1>>

IsCont(b) == b >= 128 /\ b <= 191

RECURSIVE decode_utf8(_)
decode_utf8(bs) ==
    IF bs = <<>> THEN <<>>
    ELSE
    LET b1 == bs[1]
        n  == Len(bs)
        rest(k, cp) ==
            LET r == decode_utf8(SubSeq(bs, k + 1, n))
            IN  IF r = DecodeError THEN DecodeError ELSE <<cp>> \o r
    IN  IF b1 < 128 THEN rest(1, b1)
        ELSE IF b1 >= 194 /\ b1 <= 223 THEN
            IF n >= 2 /\ IsCont(bs[2])
            THEN rest(2, (b1 - 192) * 64 + (bs[2] - 128))
            ELSE DecodeError
        ELSE IF b1 >= 224 /\ b1 <= 239 THEN
            IF /\ n >= 3 /\ IsCont(bs[2]) /\ IsCont(bs[3])
               /\ (b1 = 224 => bs[2] >= 160)
               /\ (b1 = 237 => bs[2] <= 159)
            THEN rest(3, (b1 - 224) * 4096 + (bs[2] - 128) * 64 + (bs[3] - 128))
            ELSE DecodeError
        ELSE IF b1 >= 240 /\ b1 <= 244 THEN
            IF /\ n >= 4 /\ IsCont(bs[2]) /\ IsCont(bs[3]) /\ IsCont(bs[4])
               /\ (b1 = 240 => bs[2] >= 144)
               /\ (b1 = 244 => bs[2] <= 143)
            THEN rest(4, (b1 - 240) * 262144 + (bs[2] - 128) * 4096
                         + (bs[3] - 128) * 64 + (bs[4] - 128))
            ELSE DecodeError
        ELSE DecodeError

\* ------------------------------------------------------------------- types
PageEntry(t, o, l, n) ==
    [tile_index |-> t, offset |-> o, length |-> l, file_number |-> n]

\* Hierarchical.pages: None, or a list of pages.
NoPages == [present |-> FALSE, list |-> <<>>]
SomePages(l) == [present |-> TRUE, list |-> l]

Hierarchical(nm, v) ==
    [name |-> nm, value |-> v, pages |-> NoPages, pointer |-> None]

\* The stubs __init__ appends for one prefix ("hier" or "nonhier"): group
\* index i outer, value index j inner, range(count) each. counts[i+1] is
\* <prefix>_<i>_count; the name is <prefix>_<i>_name, the value
\* <prefix>_<i>_val_<j>, kept here as the keys they are looked up under.
RECURSIVE GroupStubs(_, _, _, _)
GroupStubs(prefix, i, j, count) ==
    IF j >= count THEN <<>>
    ELSE <<Hierarchical(<<prefix, i, "name">>, <<prefix, i, "val", j>>)>>
         \o GroupStubs(prefix, i, j + 1, count)

RECURSIVE Stubs(_, _, _)
Stubs(prefix, counts, i) ==
    IF i >= Len(counts) THEN <<>>
    ELSE GroupStubs(prefix, i, 0, counts[i + 1]) \o Stubs(prefix, counts, i + 1)

\* ---------------------------------------------------------------- loadpages
\* A reader that ignores the shape: 16-byte records in both loops.
ReadEntry_AlwaysHier(f, pos, ishierarchical) ==
    LET a == ReadU32(f, pos)
        b == ReadU32(f, a.pos)
        c == ReadU32(f, b.pos)
        d == ReadU32(f, c.pos)
    IN  [entry |-> PageEntry(IF ishierarchical THEN a.val ELSE 0,
                             b.val, c.val, d.val),
         pos |-> d.pos]

\* One record of the for loop at cursor pos: the entry and the cursor after.
ReadEntry(f, pos, ishierarchical) ==
    IF ishierarchical
    THEN LET a == ReadU32(f, pos)
             b == ReadU32(f, a.pos)
             c == ReadU32(f, b.pos)
             d == ReadU32(f, c.pos)
         IN  [entry |-> PageEntry(a.val, b.val, c.val, d.val), pos |-> d.pos]
    ELSE LET s1 == ReadU32(f, pos)
             s2 == ReadU32(f, s1.pos)
             b  == ReadU32(f, s2.pos)
             c  == ReadU32(f, b.pos)
             d  == ReadU32(f, c.pos)
         IN  [entry |-> PageEntry(0, b.val, c.val, d.val), pos |-> d.pos]

\* for _ in range(n_entries): the page and the cursor after it.
RECURSIVE ReadEntries(_, _, _, _)
ReadEntries(f, pos, n, ishierarchical) ==
    IF n = 0 THEN [page |-> <<>>, pos |-> pos]
    ELSE LET e == ReadEntry(f, pos, ishierarchical)
             r == ReadEntries(f, e.pos, n - 1, ishierarchical)
         IN  [page |-> <<e.entry>> \o r.page, pos |-> r.pos]

\* One iteration of the while loop, before its fp.seek(nextpg).
ReadPage(f, pos, ishierarchical) ==
    LET n  == ReadU32(f, pos)
        nx == ReadU32(f, n.pos)
        r  == ReadEntries(f, nx.pos, n.val, ishierarchical)
    IN  [n_entries |-> n.val, nextpg |-> nx.val, page |-> r.page, pos |-> r.pos]

\* Bytes one record of a shape asks for: four, or two skipped plus three, reads.
RecordSize(ishierarchical) == IF ishierarchical THEN 16 ELSE 20

\* --------------------------------------------------------- synthetic inputs
\* The writer's side of the layout, used to build the files the reader is run
\* on: u32 little-endian fields, 16- and 20-byte records, pages in fixed slots.
U32LE(v) ==
    <<v % 256, (v \div 256) % 256, (v \div 65536) % 256, (v \div 16777216) % 256>>

RECURSIVE Flatten(_)
Flatten(ss) == IF ss = <<>> THEN <<>> ELSE ss[1] \o Flatten(Tail(ss))

\* The i-th record written to slot s; every field differs, two of them are
\* wider than one byte.
WrittenEntry(s, i) == PageEntry(16 * s + i, 256 * s + i, 65536 * i + s, s)

\* The two leading fields of a 20-byte record.
Reserved1(s, i) == 170 + i
Reserved2(s, i) == 187 + s

EncEntry(s, i, hier) ==
    LET e == WrittenEntry(s, i)
    IN  (IF hier THEN U32LE(e.tile_index)
                 ELSE U32LE(Reserved1(s, i)) \o U32LE(Reserved2(s, i)))
        \o U32LE(e.offset) \o U32LE(e.length) \o U32LE(e.file_number)

\* What the reader is to return for a written record of either shape.
ExpectedEntry(s, i, hier) ==
    IF hier THEN WrittenEntry(s, i)
    ELSE [WrittenEntry(s, i) EXCEPT !.tile_index = 0]

SlotSize == 8 + 20 * MaxEntries

\* A page descriptor is [n, next, hier]; its slot holds the page header, n
\* records and padding.
EncSlot(s, pg) ==
    LET body == U32LE(pg.n) \o U32LE(pg.next)
                \o Flatten([i \in 1..pg.n |-> EncEntry(s, i, pg.hier)])
    IN  body \o [j \in 1..(SlotSize - Len(body)) |-> 238]

EncSlots(pgs) == Flatten([s \in 1..Len(pgs) |-> EncSlot(s, pgs[s])])

\* ------------------------------------------------------------------- state
VARIABLES
    config,            \* self.config, as far as the reader uses it
    file,              \* the bytes of Index.dat
    fp,                \* the cursor of the open file
    pc,                \* the statement __readindex is at
    err,               \* the exception raised there, "" if none
    warned,            \* logger.warning was called
    v2, uuid2,         \* the strings read from the header
    hier_root, nonhier_root,
    hierarchicals, nonhierarchicals,
    k,                 \* entries of the current `for h in ...` loop done
    inload,            \* inside loadpages
    pages, nextpg,     \* loadpages' locals
    shortRead,         \* some fp.read returned fewer bytes than asked for
    written,           \* the page descriptors the file was written from
    pagebytes, coords, logged, decoded,    \* decode_tiles
    pe, across_cfg, rows, xy, mapped       \* get_tile_xy

indexVars == <<config, file, fp, pc, err, warned, v2, uuid2, hier_root,
               nonhier_root, hierarchicals, nonhierarchicals, k, inload,
               pages, nextpg, shortRead, written>>
tileVars == <<pagebytes, coords, logged, decoded>>
gridVars == <<pe, across_cfg, rows, xy, mapped>>
vars == <<indexVars, tileVars, gridVars>>

\* The parts of the state an operation of another component leaves alone.
IdleTiles ==
    /\ pagebytes = <<>> /\ coords = <<>> /\ logged = FALSE /\ decoded = FALSE
IdleGrid ==
    /\ pe = PageEntry(0, 0, 0, 0) /\ across_cfg = <<>> /\ rows = 0
    /\ xy = [x |-> 0, y |-> 0] /\ mapped = ""
IdleIndex ==
    /\ config = [slide_version |-> <<>>, slide_id |-> <<>>,
                 hier_counts |-> <<>>, nonhier_counts |-> <<>>]
    /\ file = <<>> /\ fp = 0 /\ pc = "idle" /\ err = "" /\ warned = FALSE
    /\ v2 = <<>> /\ uuid2 = <<>> /\ hier_root = 0 /\ nonhier_root = 0
    /\ hierarchicals = <<>> /\ nonhierarchicals = <<>> /\ k = 0
    /\ inload = FALSE /\ pages = <<>> /\ nextpg = 0 /\ shortRead = FALSE
    /\ written = <<>>

\* ------------------------------------------------------------- __readindex
v1 == config.slide_version
uuid1 == config.slide_id

\* `if h.pointer:` is false for None and for 0.
Truthy(p) == p /= None /\ p /= 0

\* The loop being run: the hierarchical one or the non-hierarchical one.
InHier == pc = "hier_pages"
InPages == pc \in {"hier_pages", "nonhier_pages"}
CurList == IF InHier THEN hierarchicals ELSE nonhierarchicals

\* A reader whose cursor advances by the characters decoded, not the bytes
\* read.
ReadVersion_CountsChars ==
    /\ pc = "version" /\ err = ""
    /\ LET bs == Read(file, fp, Len(v1))
           d  == decode_utf8(bs)
       IN  /\ shortRead' = (shortRead \/ Len(bs) < Len(v1))
           /\ IF d = DecodeError
              THEN /\ err' = "UnicodeDecodeError" /\ fp' = fp + Len(bs)
                   /\ UNCHANGED <<pc, v2, warned>>
              ELSE /\ v2' = d /\ warned' = (v1 /= d) /\ fp' = fp + Len(d)
                   /\ pc' = "uuid" /\ err' = err
    /\ UNCHANGED <<config, file, uuid2, hier_root, nonhier_root, hierarchicals,
                   nonhierarchicals, k, inload, pages, nextpg, written>>
    /\ UNCHANGED <<tileVars, gridVars>>

\* v2 = fp.read(len(v1)).decode("utf-8"); a difference is only warned about.
ReadVersion ==
    /\ pc = "version" /\ err = ""
    /\ LET bs == Read(file, fp, Len(v1))
           d  == decode_utf8(bs)
       IN  /\ fp' = fp + Len(bs)
           /\ shortRead' = (shortRead \/ Len(bs) < Len(v1))
           /\ IF d = DecodeError
              THEN /\ err' = "UnicodeDecodeError"
                   /\ UNCHANGED <<pc, v2, warned>>
              ELSE /\ v2' = d /\ warned' = (v1 /= d)
                   /\ pc' = "uuid" /\ err' = err
    /\ UNCHANGED <<config, file, uuid2, hier_root, nonhier_root, hierarchicals,
                   nonhierarchicals, k, inload, pages, nextpg, written>>
    /\ UNCHANGED <<tileVars, gridVars>>

\* A reader whose assert does nothing.
ReadUuid_NoAssert ==
    /\ pc = "uuid" /\ err = ""
    /\ LET bs == Read(file, fp, Len(uuid1))
           d  == decode_utf8(bs)
       IN  /\ fp' = fp + Len(bs)
           /\ shortRead' = (shortRead \/ Len(bs) < Len(uuid1))
           /\ IF d = DecodeError
              THEN /\ err' = "UnicodeDecodeError"
                   /\ UNCHANGED <<pc, uuid2>>
              ELSE /\ uuid2' = d /\ pc' = "roots" /\ err' = err
    /\ UNCHANGED <<config, file, warned, v2, hier_root, nonhier_root,
                   hierarchicals, nonhierarchicals, k, inload, pages, nextpg,
                   written>>
    /\ UNCHANGED <<tileVars, gridVars>>

\* uuid2 = fp.read(len(uuid1)).decode("utf-8"); assert uuid1 == uuid2.
ReadUuid ==
    /\ pc = "uuid" /\ err = ""
    /\ LET bs == Read(file, fp, Len(uuid1))
           d  == decode_utf8(bs)
       IN  /\ fp' = fp + Len(bs)
           /\ shortRead' = (shortRead \/ Len(bs) < Len(uuid1))
           /\ IF d = DecodeError
              THEN /\ err' = "UnicodeDecodeError"
                   /\ UNCHANGED <<pc, uuid2>>
              ELSE /\ uuid2' = d
                   /\ IF uuid1 = d
                      THEN pc' = "roots" /\ err' = err
                      ELSE pc' = pc /\ err' = "AssertionError"
    /\ UNCHANGED <<config, file, warned, v2, hier_root, nonhier_root,
                   hierarchicals, nonhierarchicals, k, inload, pages, nextpg,
                   written>>
    /\ UNCHANGED <<tileVars, gridVars>>

\* hier_root and nonhier_root, two u32 after the identifier.
ReadRoots ==
    /\ pc = "roots"
    /\ LET a == ReadU32(file, fp)
           b == ReadU32(file, a.pos)
       IN  /\ hier_root' = a.val
           /\ nonhier_root' = b.val
           /\ fp' = b.pos
           /\ shortRead' = (shortRead \/ b.pos < fp + 8)
    /\ pc' = "hier_ptrs"
    /\ UNCHANGED <<config, file, err, warned, v2, uuid2, hierarchicals,
                   nonhierarchicals, k, inload, pages, nextpg, written>>
    /\ UNCHANGED <<tileVars, gridVars>>

\* for h in hs: h.pointer = u32 at the cursor; 0 becomes None. The list with
\* its pointers set, and the cursor after the last read.
RECURSIVE ReadPointers(_, _, _)
ReadPointers(f, pos, hs) ==
    IF hs = <<>> THEN [list |-> <<>>, pos |-> pos]
    ELSE LET r    == ReadU32(f, pos)
             h    == [hs[1] EXCEPT !.pointer = IF r.val = 0 THEN None ELSE r.val]
             rest == ReadPointers(f, r.pos, Tail(hs))
         IN  [list |-> <<h>> \o rest.list, pos |-> rest.pos]

\* fp.seek(hier_root) and the first loop over self.hierarchicals.
ReadHierPointers ==
    /\ pc = "hier_ptrs"
    /\ LET r == ReadPointers(file, hier_root, hierarchicals)
       IN  /\ hierarchicals' = r.list
           /\ fp' = r.pos
           /\ shortRead' = (shortRead \/ r.pos < hier_root + 4 * Len(hierarchicals))
    /\ pc' = "hier_pages"
    /\ k' = 0
    /\ UNCHANGED <<config, file, err, warned, v2, uuid2, hier_root, nonhier_root,
                   nonhierarchicals, inload, pages, nextpg, written>>
    /\ UNCHANGED <<tileVars, gridVars>>

\* A reader without the fp.seek(nonhier_root): the table is read where the
\* last chain traversal left the cursor.
ReadNonhierPointers_NoSeek ==
    /\ pc = "hier_pages" /\ ~inload /\ k = Len(hierarchicals)
    /\ LET r == ReadPointers(file, fp, nonhierarchicals)
       IN  /\ nonhierarchicals' = r.list
           /\ fp' = r.pos
           /\ shortRead' = (shortRead \/ r.pos < fp + 4 * Len(nonhierarchicals))
    /\ pc' = "nonhier_pages"
    /\ k' = 0
    /\ UNCHANGED <<config, file, err, warned, v2, uuid2, hier_root, nonhier_root,
                   hierarchicals, inload, pages, nextpg, written>>
    /\ UNCHANGED <<tileVars, gridVars>>

\* fp.seek(nonhier_root) and the first loop over self.nonhierarchicals, once
\* the loop loading the hierarchical pages has ended.
ReadNonhierPointers ==
    /\ pc = "hier_pages" /\ ~inload /\ k = Len(hierarchicals)
    /\ LET r == ReadPointers(file, nonhier_root, nonhierarchicals)
       IN  /\ nonhierarchicals' = r.list
           /\ fp' = r.pos
           /\ shortRead' = (shortRead
                            \/ r.pos < nonhier_root + 4 * Len(nonhierarchicals))
    /\ pc' = "nonhier_pages"
    /\ k' = 0
    /\ UNCHANGED <<config, file, err, warned, v2, uuid2, hier_root, nonhier_root,
                   hierarchicals, inload, pages, nextpg, written>>
    /\ UNCHANGED <<tileVars, gridVars>>

\* A reader that gives a dimension without a pointer an empty list of pages.
SkipDimension_EmptyPages ==
    /\ InPages /\ ~inload /\ k < Len(CurList)
    /\ ~Truthy(CurList[k + 1].pointer)
    /\ k' = k + 1
    /\ IF InHier
       THEN /\ hierarchicals' =
                  [hierarchicals EXCEPT ![k + 1].pages = SomePages(<<>>)]
            /\ UNCHANGED nonhierarchicals
       ELSE /\ nonhierarchicals' =
                  [nonhierarchicals EXCEPT ![k + 1].pages = SomePages(<<>>)]
            /\ UNCHANGED hierarchicals
    /\ UNCHANGED <<config, file, fp, pc, err, warned, v2, uuid2, hier_root,
                   nonhier_root, inload, pages, nextpg, shortRead, written>>
    /\ UNCHANGED <<tileVars, gridVars>>

\* `if h.pointer:` is false: the loop goes on to the next h.
SkipDimension ==
    /\ InPages /\ ~inload /\ k < Len(CurList)
    /\ ~Truthy(CurList[k + 1].pointer)
    /\ k' = k + 1
    /\ UNCHANGED <<config, file, fp, pc, err, warned, v2, uuid2, hier_root,
                   nonhier_root, hierarchicals, nonhierarchicals, inload, pages,
                   nextpg, shortRead, written>>
    /\ UNCHANGED <<tileVars, gridVars>>

\* fp.seek(h.pointer) and the entry of loadpages: pages = [], nextpg = 123.
CallLoadpages ==
    /\ InPages /\ ~inload /\ k < Len(CurList)
    /\ Truthy(CurList[k + 1].pointer)
    /\ fp' = CurList[k + 1].pointer
    /\ pages' = <<>>
    /\ nextpg' = 123
    /\ inload' = TRUE
    /\ UNCHANGED <<config, file, pc, err, warned, v2, uuid2, hier_root,
                   nonhier_root, hierarchicals, nonhierarchicals, k, shortRead,
                   written>>
    /\ UNCHANGED <<tileVars, gridVars>>

\* A loop that puts each page in front of the list.
LoadPage_Prepends ==
    /\ InPages /\ inload /\ nextpg /= 0
    /\ Len(pages) < MaxPages
    /\ LET r == ReadPage(file, fp, InHier)
       IN  /\ pages' = <<r.page>> \o pages
           /\ nextpg' = r.nextpg
           /\ fp' = r.nextpg
           /\ shortRead' = (shortRead
                            \/ r.pos < fp + 8 + r.n_entries * RecordSize(InHier))
    /\ UNCHANGED <<config, file, pc, err, warned, v2, uuid2, hier_root,
                   nonhier_root, hierarchicals, nonhierarchicals, k, inload,
                   written>>
    /\ UNCHANGED <<tileVars, gridVars>>

\* One iteration of `while nextpg != 0`: the page header, n_entries records of
\* the loop's shape, pages.append(page), fp.seek(nextpg).
LoadPage ==
    /\ InPages /\ inload /\ nextpg /= 0
    /\ Len(pages) < MaxPages
    /\ LET r == ReadPage(file, fp, InHier)
       IN  /\ pages' = Append(pages, r.page)
           /\ nextpg' = r.nextpg
           /\ fp' = r.nextpg
           /\ shortRead' = (shortRead
                            \/ r.pos < fp + 8 + r.n_entries * RecordSize(InHier))
    /\ UNCHANGED <<config, file, pc, err, warned, v2, uuid2, hier_root,
                   nonhier_root, hierarchicals, nonhierarchicals, k, inload,
                   written>>
    /\ UNCHANGED <<tileVars, gridVars>>

\* The loop has ended: return pages, and h.pages = the list returned.
ReturnPages ==
    /\ InPages /\ inload /\ nextpg = 0
    /\ IF InHier
       THEN /\ hierarchicals' =
                  [hierarchicals EXCEPT ![k + 1].pages = SomePages(pages)]
            /\ UNCHANGED nonhierarchicals
       ELSE /\ nonhierarchicals' =
                  [nonhierarchicals EXCEPT ![k + 1].pages = SomePages(pages)]
            /\ UNCHANGED hierarchicals
    /\ inload' = FALSE
    /\ k' = k + 1
    /\ pages' = <<>>
    /\ UNCHANGED <<config, file, fp, pc, err, warned, v2, uuid2, hier_root,
                   nonhier_root, nextpg, shortRead, written>>
    /\ UNCHANGED <<tileVars, gridVars>>

\* The second non-hierarchical loop has ended and the file is closed.
Finish ==
    /\ pc = "nonhier_pages" /\ ~inload /\ k = Len(nonhierarchicals)
    /\ pc' = "done"
    /\ UNCHANGED <<config, file, fp, err, warned, v2, uuid2, hier_root,
                   nonhier_root, hierarchicals, nonhierarchicals, k, inload,
                   pages, nextpg, shortRead, written>>
    /\ UNCHANGED <<tileVars, gridVars>>

\* ------------------------------------------------- Index.dat files (inputs)
\* slide_version "AB", slide_id "I"; hier_count = 2 with hier_0_count = 2 and
\* hier_1_count = 1; nonhier_count = 1 with nonhier_0_count = 1.
IndexConfig ==
    [slide_version |-> <<65, 66>>, slide_id |-> <<73>>,
     hier_counts |-> <<2, 1>>, nonhier_counts |-> <<1>>]

\* The version field of the file: "AB", "AC", "é" (two bytes, one
\* character) and a field that is no UTF-8.
VersionFields == {<<65, 66>>, <<65, 67>>, <<195, 169>>, <<255, 66>>}
\* The identifier field: "I", "J" and a field that is no UTF-8.
IdFields == {<<73>>, <<74>>, <<200>>}

RECURSIVE Sum(_)
Sum(ns) == IF ns = <<>> THEN 0 ELSE ns[1] + Sum(Tail(ns))

NumHier == Sum(IndexConfig.hier_counts)
NumNonhier == Sum(IndexConfig.nonhier_counts)
TablesAt == Len(IndexConfig.slide_version) + Len(IndexConfig.slide_id) + 8
PagesAt == TablesAt + 4 * (NumHier + NumNonhier)
SlotAt(s) == PagesAt + (s - 1) * SlotSize

\* The two pointer tables in either order, the hierarchical pointers hp and
\* the non-hierarchical pointers np, then the page slots.
IndexFile(ver, idf, hfirst, hp, np, pgs) ==
    LET hroot == IF hfirst THEN TablesAt ELSE TablesAt + 4 * NumNonhier
        nroot == IF hfirst THEN TablesAt + 4 * NumHier ELSE TablesAt
        ht    == Flatten([i \in 1..Len(hp) |-> U32LE(hp[i])])
        nt    == Flatten([i \in 1..Len(np) |-> U32LE(np[i])])
    IN  ver \o idf \o U32LE(hroot) \o U32LE(nroot)
        \o (IF hfirst THEN ht \o nt ELSE nt \o ht) \o EncSlots(pgs)

\* Slots 1 and 2 hold 16-byte records, slot 3 holds 20-byte records; slot 1
\* ends its chain, continues at slot 2 or points at itself.
IndexPages ==
    { << [n |-> 1, next |-> nx, hier |-> TRUE],
         [n |-> n2, next |-> 0, hier |-> TRUE],
         [n |-> MaxEntries, next |-> 0, hier |-> FALSE] >> :
      nx \in {0, SlotAt(1), SlotAt(2)}, n2 \in {0, MaxEntries} }

\* Where a file is cut: not at all, inside the first record of slot 1, or
\* inside the first pointer table.
IndexCuts == {PagesAt + 3 * SlotSize, SlotAt(1) + 13, TablesAt + 6}

\* The state when __init__ calls __readindex: the stubs are built, the file is
\* open at offset 0.
Init ==
    /\ config = IndexConfig
    /\ \E ver \in VersionFields, idf \in IdFields, hfirst \in BOOLEAN,
          hp \in [1..NumHier -> {0, SlotAt(1), SlotAt(2)}],
          np \in [1..NumNonhier -> {0, SlotAt(3)}],
          pgs \in IndexPages, cut \in IndexCuts :
          /\ file = SubSeq(IndexFile(ver, idf, hfirst, hp, np, pgs), 1, cut)
          /\ written = pgs
    /\ fp = 0
    /\ pc = "version"
    /\ err = ""
    /\ warned = FALSE
    /\ v2 = <<>> /\ uuid2 = <<>>
    /\ hier_root = 0 /\ nonhier_root = 0
    /\ hierarchicals = Stubs("hier", config.hier_counts, 0)
    /\ nonhierarchicals = Stubs("nonhier", config.nonhier_counts, 0)
    /\ k = 0
    /\ inload = FALSE
    /\ pages = <<>> /\ nextpg = 0
    /\ shortRead = FALSE
    /\ IdleTiles /\ IdleGrid

Next ==
    \/ ReadVersion
    \/ ReadUuid
    \/ ReadRoots
    \/ ReadHierPointers
    \/ SkipDimension
    \/ CallLoadpages
    \/ LoadPage
    \/ ReturnPages
    \/ ReadNonhierPointers
    \/ Finish

Spec == Init /\ [][Next]_vars

\* ------------------------------------------------ loadpages alone (SpecLoad)
\* A file that holds a prefix and MaxSlots page slots, all of one record
\* shape; the chain starts at slot 1.
LoadPrefix == <<77, 82, 88, 83>>
LoadSlotAt(s) == Len(LoadPrefix) + (s - 1) * SlotSize
LoadSlotOf(off) == (off - Len(LoadPrefix)) \div SlotSize + 1

LoadPageSets(kind) ==
    [1..MaxSlots ->
        [n : 0..MaxEntries,
         next : {0} \cup {LoadSlotAt(s) : s \in 1..MaxSlots},
         hier : {kind}]]

\* Where a chain file is cut: not at all, inside the first record of slot 1,
\* or inside the header of the last slot.
LoadCuts ==
    {LoadSlotAt(MaxSlots + 1), LoadSlotAt(1) + 13, LoadSlotAt(MaxSlots) + 3}

\* The state when __readindex has done fp.seek(h.pointer) for its only
\* dimension and loadpages has set pages = [] and nextpg = 123.
InitLoad ==
    /\ \E kind \in BOOLEAN, cut \in LoadCuts :
        \E pgs \in LoadPageSets(kind) :
          /\ config = [slide_version |-> <<>>, slide_id |-> <<>>,
                       hier_counts |-> IF kind THEN <<1>> ELSE <<>>,
                       nonhier_counts |-> IF kind THEN <<>> ELSE <<1>>]
          /\ file = SubSeq(LoadPrefix \o EncSlots(pgs), 1, cut)
          /\ written = pgs
          /\ pc = IF kind THEN "hier_pages" ELSE "nonhier_pages"
          /\ hierarchicals =
                 [i \in 1..(IF kind THEN 1 ELSE 0) |->
                     [Stubs("hier", <<1>>, 0)[i] EXCEPT !.pointer = LoadSlotAt(1)]]
          /\ nonhierarchicals =
                 [i \in 1..(IF kind THEN 0 ELSE 1) |->
                     [Stubs("nonhier", <<1>>, 0)[i] EXCEPT !.pointer = LoadSlotAt(1)]]
    /\ fp = LoadSlotAt(1)
    /\ err = "" /\ warned = FALSE /\ v2 = <<>> /\ uuid2 = <<>>
    /\ hier_root = 0 /\ nonhier_root = 0
    /\ k = 0
    /\ inload = TRUE
    /\ pages = <<>> /\ nextpg = 123
    /\ shortRead = FALSE
    /\ IdleTiles /\ IdleGrid

NextLoad ==
    \/ LoadPage
    \/ ReturnPages

SpecLoad == InitLoad /\ [][NextLoad]_vars

\* ------------------------------------------------------------ decode_tiles
\* pagebytes[a:b]: the slice, clipped to the buffer.
Slice(bs, a, b) == SubSeq(bs, a + 1, Min(b, Len(bs)))

RECURSIVE Pow256(_)
Pow256(n) == IF n = 0 THEN 1 ELSE 256 * Pow256(n - 1)

\* int.from_bytes(bs, byteorder="little", signed=True): two's complement of
\* as many bytes as bs has, so the last byte counts from -128 to 127; b'' is 0.
from_bytes_signed(bs) ==
    IF bs = <<>> THEN 0
    ELSE LET n   == Len(bs)
             top == IF bs[n] >= 128 THEN bs[n] - 256 ELSE bs[n]
         IN  from_bytes(SubSeq(bs, 1, n - 1)) + Pow256(n - 1) * top

\* for start in range(0, len(pagebytes), 9), from start on.
RECURSIVE decode_from(_, _)
decode_from(bs, start) ==
    IF start >= Len(bs) THEN <<>>
    ELSE LET flag == bs[start + 1] = 1
             x    == from_bytes_signed(Slice(bs, start + 1, start + 5))
             y    == from_bytes_signed(Slice(bs, start + 5, start + 9))
         IN  <<[x |-> x, y |-> y, flag |-> flag]>> \o decode_from(bs, start + 9)

decode_tiles(bs) == decode_from(bs, 0)

\* decode_tiles(pagebytes): the error is logged when the length is no
\* multiple of 9, and the loop runs either way.
DecodeTiles ==
    /\ pc = "idle" /\ ~decoded
    /\ logged' = (Len(pagebytes) % 9 /= 0)
    /\ coords' = decode_tiles(pagebytes)
    /\ decoded' = TRUE
    /\ UNCHANGED pagebytes
    /\ UNCHANGED <<indexVars, gridVars>>

\* Coordinate blobs: up to MaxCoords records, then the first r < 9 bytes of one
\* more.
\* Two's complement: % and \div round towards minus infinity.
I32LE(v) == U32LE(v)
EncCoord(c) == <<IF c.flag THEN 1 ELSE 0>> \o I32LE(c.x) \o I32LE(c.y)

CoordChoices ==
    {[x |-> 5, y |-> 0 - 3, flag |-> TRUE],
     [x |-> 0, y |-> 100, flag |-> FALSE],
     [x |-> 0 - 70000, y |-> 65536, flag |-> TRUE]}

CoordLists == UNION {[1..n -> CoordChoices] : n \in 0..MaxCoords}

InitTiles ==
    /\ \E cs \in CoordLists, c \in CoordChoices, r \in 0..8 :
          pagebytes = Flatten([i \in 1..Len(cs) |-> EncCoord(cs[i])])
                      \o SubSeq(EncCoord(c), 1, r)
    /\ coords = <<>> /\ logged = FALSE /\ decoded = FALSE
    /\ IdleIndex /\ IdleGrid

NextTiles == DecodeTiles

SpecTiles == InitTiles /\ [][NextTiles]_vars

\* -------------------------------------------------------------- get_tile_xy
\* int(s) for the strings imagenumber_x is given here: decimal digits; the
\* empty string raises ValueError.
ValueError == 0 - 1

RECURSIVE int(_)
int(str) ==
    IF str = <<>> \/ \E i \in 1..Len(str) : str[i] < 48 \/ str[i] > 57
    THEN ValueError
    ELSE IF Len(str) = 1 THEN str[1] - 48
    ELSE 10 * int(SubSeq(str, 1, Len(str) - 1)) + (str[Len(str)] - 48)

\* A mapper that divides by the wrong operation for each coordinate.
get_tile_xy_Swapped(tile_index, across) ==
    [x |-> tile_index \div across, y |-> tile_index % across]

get_tile_xy(tile_index, across) ==
    [x |-> tile_index % across, y |-> tile_index \div across]

\* get_tile_xy(pe): across = int(imagenumber_x), then the two divisions.
GetTileXY ==
    /\ pc = "idle" /\ mapped = ""
    /\ LET across == int(across_cfg)
       IN  IF across = ValueError
           THEN mapped' = "ValueError" /\ xy' = xy
           ELSE IF across = 0
           THEN mapped' = "ZeroDivisionError" /\ xy' = xy
           ELSE mapped' = "ok" /\ xy' = get_tile_xy(pe.tile_index, across)
    /\ UNCHANGED <<pe, across_cfg, rows>>
    /\ UNCHANGED <<indexVars, tileVars>>

\* str(n) for n >= 0.
RECURSIVE Digits(_)
Digits(n) == IF n < 10 THEN <<48 + n>> ELSE Digits(n \div 10) \o <<48 + (n % 10)>>

\* A grid of across x rows tiles and one of its tile indices; across "0" and
\* "" with tile index 0 or 1.
InitGrid ==
    /\ \E a \in 0..MaxAcross, r \in 1..MaxRows, empty \in BOOLEAN :
          /\ across_cfg = IF empty /\ a = 0 THEN <<>> ELSE Digits(a)
          /\ rows = r
          /\ \E t \in 0..(IF a = 0 THEN 1 ELSE a * r - 1) :
                pe = PageEntry(t, 0, 0, 0)
    /\ xy = [x |-> 0, y |-> 0] /\ mapped = ""
    /\ IdleIndex /\ IdleTiles

NextGrid == GetTileXY

SpecGrid == InitGrid /\ [][NextGrid]_vars

\* ===================================================== properties (Spec)
\* How far __readindex has come: the statements in program order.
PcRank ==
    CASE pc = "version" -> 0
      [] pc = "uuid" -> 1
      [] pc = "roots" -> 2
      [] pc = "hier_ptrs" -> 3
      [] pc = "hier_pages" -> 4
      [] pc = "nonhier_pages" -> 5
      [] pc = "done" -> 6
      [] OTHER -> 0 - 1

\* The u32 stored little-endian in the four bytes at offset off, where the
\* file holds them all.
Holds(f, off, n) == off + n <= Len(f)
StoredU32(f, off) ==
    f[off + 1] + 256 * f[off + 2] + 65536 * f[off + 3] + 16777216 * f[off + 4]

NoneIfZero(v) == IF v = 0 THEN None ELSE v

AllDimensions ==
    {hierarchicals[i] : i \in 1..Len(hierarchicals)}
    \cup {nonhierarchicals[i] : i \in 1..Len(nonhierarchicals)}

\* The identifier string has been read and decoded.
IdentifierRead ==
    PcRank >= 2 \/ (pc = "uuid" /\ err \notin {"", "UnicodeDecodeError"})

\* C2: when the identifier string read from Index.dat differs from slide_id,
\* the load fails at the identifier check: the root offsets are not read, no
\* dimension gets a pointer or pages, and no page chain is traversed.
C2_IdMismatchIsFatal ==
    (IdentifierRead /\ uuid2 /= uuid1) =>
        /\ pc = "uuid" /\ err /= ""
        /\ hier_root = 0 /\ nonhier_root = 0
        /\ \A h \in AllDimensions : h.pointer = None /\ h.pages = NoPages
        /\ ~inload /\ pages = <<>>
        /\ fp <= Len(v1) + Len(uuid1)

C2_Witness ==
    /\ pc = "uuid" /\ err = "AssertionError"
    /\ uuid2 = <<74>> /\ uuid1 = <<73>>
    /\ Len(file) > TablesAt + 4 * (NumHier + NumNonhier)

\* The same file with its version field replaced by slide_version (ASCII
\* here, so its bytes are its code points): the file of the matching case.
MatchingTwin == v1 \o SubSeq(file, Len(v1) + 1, Len(file))

\* loadpages as a function of the file and the start offset, for a chain that
\* ends within fuel pages.
RECURSIVE RunLoadpages(_, _, _, _)
RunLoadpages(f, pos, ishierarchical, fuel) ==
    IF fuel = 0 THEN <<>>
    ELSE LET r == ReadPage(f, pos, ishierarchical)
         IN  <<r.page>> \o (IF r.nextpg = 0 THEN <<>>
                            ELSE RunLoadpages(f, r.nextpg, ishierarchical, fuel - 1))

Pointers(hs) == [i \in 1..Len(hs) |-> hs[i].pointer]

\* C3: a version string that differs from slide_version is never fatal: the
\* load warns and goes on, and (roots, pointers, page chains, and the outcome
\* of the identifier check) are those of the same file with a matching version
\* field, the cursor standing len(slide_version) bytes in either way.
C3_VersionMismatchNotFatal ==
    LET v   == decode_utf8(Read(file, 0, Len(v1)))
        tw  == MatchingTwin
        ra  == ReadU32(tw, Len(v1) + Len(uuid1))
        rb  == ReadU32(tw, ra.pos)
    IN  /\ (pc = "version" /\ err /= "") => v = DecodeError
        /\ PcRank >= 1 => (v2 = v /\ (warned <=> v2 /= v1))
        /\ (pc = "uuid" /\ err /= "") =>
               decode_utf8(Read(tw, Len(v1), Len(uuid1))) /= uuid1
        /\ PcRank >= 3 => (hier_root = ra.val /\ nonhier_root = rb.val)
        /\ PcRank >= 4 =>
               Pointers(hierarchicals)
                 = Pointers(ReadPointers(tw, ra.val, hierarchicals).list)
        /\ PcRank >= 5 =>
               Pointers(nonhierarchicals)
                 = Pointers(ReadPointers(tw, rb.val, nonhierarchicals).list)
        /\ \A i \in 1..Len(hierarchicals) :
               hierarchicals[i].pages.present =>
                   hierarchicals[i].pages.list
                     = RunLoadpages(tw, hierarchicals[i].pointer, TRUE, MaxPages)
        /\ \A i \in 1..Len(nonhierarchicals) :
               nonhierarchicals[i].pages.present =>
                   nonhierarchicals[i].pages.list
                     = RunLoadpages(tw, nonhierarchicals[i].pointer, FALSE, MaxPages)

C3_Witness ==
    /\ pc = "done" /\ warned /\ v2 /= v1 /\ err = ""
    /\ \E i \in 1..Len(hierarchicals) : Len(hierarchicals[i].pages.list) = 2
    /\ nonhierarchicals[1].pages.present

\* C4: after a successful load, a table value of 0 is an absent pointer and
\* no error, no pointer is 0, and a dimension has pages exactly when it has a
\* pointer.
C4_PagesIffPointer ==
    pc = "done" =>
        /\ err = ""
        /\ \A i \in 1..Len(hierarchicals) :
               LET h == hierarchicals[i]
               IN  /\ h.pointer /= 0
                   /\ from_bytes(Read(file, hier_root + 4 * (i - 1), 4)) = 0
                        => h.pointer = None
                   /\ h.pages.present <=> h.pointer /= None
        /\ \A i \in 1..Len(nonhierarchicals) :
               LET h == nonhierarchicals[i]
               IN  /\ h.pointer /= 0
                   /\ from_bytes(Read(file, nonhier_root + 4 * (i - 1), 4)) = 0
                        => h.pointer = None
                   /\ h.pages.present <=> h.pointer /= None

C4_Witness ==
    /\ pc = "done"
    /\ hierarchicals[1].pointer = None /\ hierarchicals[1].pages = NoPages
    /\ hierarchicals[2].pointer /= None /\ hierarchicals[2].pages.present
    /\ nonhierarchicals[1].pointer = None

\* The stubs in enumeration order: those of group 0 first, each group's values
\* in order of their index.
RECURSIVE ExpectedKeys(_, _, _)
ExpectedKeys(prefix, counts, g) ==
    IF g > Len(counts) THEN <<>>
    ELSE [j \in 1..counts[g] |->
             [name |-> <<prefix, g - 1, "name">>,
              value |-> <<prefix, g - 1, "val", j - 1>>]]
         \o ExpectedKeys(prefix, counts, g + 1)

Keys(hs) == [i \in 1..Len(hs) |-> [name |-> hs[i].name, value |-> hs[i].value]]

PositionalPointers(hs, root) ==
    \A i \in 1..Len(hs) :
        Holds(file, root + 4 * (i - 1), 4) =>
            hs[i].pointer = NoneIfZero(StoredU32(file, root + 4 * (i - 1)))

\* C5: the i-th stub in enumeration order (group outer, value inner) gets the
\* u32 stored at root + 4*i (0 as None), whatever the page chains hold and
\* at every later point of the load, chain traversals included; table bytes
\* 00000000 32000000 64000000 resolve to [None, 50, 100].
C5_PointersArePositional ==
    /\ Keys(hierarchicals) = ExpectedKeys("hier", config.hier_counts, 1)
    /\ Keys(nonhierarchicals) = ExpectedKeys("nonhier", config.nonhier_counts, 1)
    /\ PcRank >= 4 => PositionalPointers(hierarchicals, hier_root)
    /\ PcRank >= 5 => PositionalPointers(nonhierarchicals, nonhier_root)
    /\ Pointers(ReadPointers(<<0, 0, 0, 0, 50, 0, 0, 0, 100, 0, 0, 0>>, 0,
                             Stubs("hier", <<3>>, 0)).list)
         = <<None, 50, 100>>

C5_Witness ==
    /\ pc = "done"
    /\ hier_root > nonhier_root
    /\ Pointers(hierarchicals) = <<None, SlotAt(1), SlotAt(2)>>
    /\ Pointers(nonhierarchicals) = <<SlotAt(3)>>
    /\ Len(hierarchicals[2].pages.list) = 2

\* C6: a read that gets fewer bytes than it asked for is a fatal error.
C6_ShortReadIsFatal == shortRead => err /= ""

\* A step of the while loop: a page is appended.
LoadPageStep == inload /\ inload' /\ Len(pages') = Len(pages) + 1

\* The page appended holds the n_entries records stored after the 8-byte
\* header at the cursor, 16 bytes apart as (tile_index, offset, length,
\* file_number) in the hierarchical loop, 20 bytes apart as (0, third, fourth,
\* fifth field) in the non-hierarchical loop.
PageDecodedByShape ==
    LET size == IF InHier THEN 16 ELSE 20
        page == pages'[Len(pages')]
    IN  (Holds(file, fp, 8) /\ Holds(file, fp, 8 + StoredU32(file, fp) * size)) =>
            /\ Len(page) = StoredU32(file, fp)
            /\ nextpg' = StoredU32(file, fp + 4)
            /\ \A j \in 1..Len(page) :
                   LET at == fp + 8 + (j - 1) * size
                   IN  page[j] =
                         IF InHier
                         THEN PageEntry(StoredU32(file, at), StoredU32(file, at + 4),
                                        StoredU32(file, at + 8), StoredU32(file, at + 12))
                         ELSE PageEntry(0, StoredU32(file, at + 8),
                                        StoredU32(file, at + 12), StoredU32(file, at + 16))

\* A chain is traversed from a pointer of the loop's own group, and its pages
\* are stored in that group.
ChainsStayInGroup ==
    /\ inload' /\ ~inload =>
           fp' \in {CurList[i].pointer : i \in 1..Len(CurList)}
    /\ hierarchicals' /= hierarchicals => pc \in {"hier_ptrs", "hier_pages"}
    /\ nonhierarchicals' /= nonhierarchicals => pc \in {"hier_pages", "nonhier_pages"}
    /\ (inload /\ ~inload') =>
           IF InHier THEN hierarchicals'[k + 1].pages = SomePages(pages)
           ELSE nonhierarchicals'[k + 1].pages = SomePages(pages)

\* C10: a page yields exactly n_entries records of the loop's shape (16-byte
\* hierarchical, 20-byte non-hierarchical with tile_index 0), and chains
\* reached from hier_root are decoded with the hierarchical shape only, those
\* from nonhier_root with the non-hierarchical shape only.
C10_RecordShapes ==
    [][(LoadPageStep => PageDecodedByShape) /\ ChainsStayInGroup]_vars

C10_Witness ==
    /\ pc = "done"
    /\ nonhierarchicals[1].pages.present
    /\ Len(nonhierarchicals[1].pages.list[1]) = MaxEntries
    /\ nonhierarchicals[1].pages.list[1][MaxEntries]
         = ExpectedEntry(3, MaxEntries, FALSE)
    /\ hierarchicals[1].pages.present
    /\ Len(hierarchicals[1].pages.list) = 2
    /\ Len(hierarchicals[1].pages.list[2]) = MaxEntries

\* ================================================= properties (SpecLoad)
\* The slots following next from slot s, at most fuel of them; 0 stands for
\* the rest of a chain that has not ended by then.
RECURSIVE Follow(_, _, _)
Follow(pgs, s, fuel) ==
    IF fuel = 0 THEN <<0>>
    ELSE <<s>> \o (IF pgs[s].next = 0 THEN <<>>
                   ELSE Follow(pgs, LoadSlotOf(pgs[s].next), fuel - 1))

ChainSlots == Follow(written, 1, Len(written))

\* The chain reaches next = 0, and the file holds every page of it whole.
WellFormedChain ==
    /\ \A i \in 1..Len(ChainSlots) : ChainSlots[i] /= 0
    /\ \A i \in 1..Len(ChainSlots) :
           LET s == ChainSlots[i]
           IN  Holds(file, LoadSlotAt(s),
                     8 + written[s].n * RecordSize(written[s].hier))

\* The pages written, in chain order, as the reader is to return them.
ExpectedPages ==
    [i \in 1..Len(ChainSlots) |->
        LET s == ChainSlots[i]
        IN  [j \in 1..written[s].n |-> ExpectedEntry(s, j, written[s].hier)]]

RecordsWritten == Sum([i \in 1..Len(ChainSlots) |-> written[ChainSlots[i]].n])

Returned == CurList[1].pages

\* C1: on a well-formed chain loadpages ends after one iteration per page of
\* the chain and returns one page per page written, in chain order, each with
\* its records in written order and with the values written; the entry
\* counts sum to the number of records written.
C1_RoundTrip ==
    WellFormedChain =>
        /\ inload =>
               /\ Len(pages) <= Len(ChainSlots)
               /\ pages = SubSeq(ExpectedPages, 1, Len(pages))
               /\ nextpg = 0 <=> Len(pages) = Len(ChainSlots)
               /\ nextpg /= 0 => Len(pages) < MaxPages
        /\ Returned.present =>
               /\ Returned.list = ExpectedPages
               /\ Sum([i \in 1..Len(Returned.list) |-> Len(Returned.list[i])])
                    = RecordsWritten

C1_Witness ==
    /\ WellFormedChain
    /\ Returned.present
    /\ Len(Returned.list) = MaxSlots
    /\ Len(Returned.list[1]) = MaxEntries
    /\ Len(Returned.list[2]) = 1
    /\ ~InHier

\* C9: the traversal ends on every input: a traversal that ends reads no page
\* twice, so it never holds more pages than the file has.
C9_TraversalIsBounded == inload => Len(pages) <= Len(written)

\* ================================================ properties (SpecTiles)
\* C7: decode_tiles returns floor(len/9) triples, those of the complete 9-byte
\* strides in input order, and reports an error when bytes are left over.
C7_CompleteStridesOnly ==
    decoded =>
        /\ Len(coords) = Len(pagebytes) \div 9
        /\ logged <=> Len(pagebytes) % 9 /= 0
        /\ \A i \in 1..Len(coords) :
               SubSeq(pagebytes, 9 * (i - 1) + 1, 9 * i) = EncCoord(coords[i])

\* ================================================= properties (SpecGrid)
GridRange(a) == 0..(a * rows - 1)

\* C8: for tiles_across >= 1 and rows >= 1, get_tile_xy is a bijection from
\* [0, tiles_across*rows) onto {0..tiles_across-1} x {0..rows-1} with
\* y*tiles_across + x = tile_index; to_grid(37,10) = (7,3) and
\* to_grid(10,10) = (0,1).
C8_GridBijection ==
    /\ \A a \in 1..MaxAcross :
           across_cfg = Digits(a) =>
               /\ mapped /= "" =>
                      /\ mapped = "ok"
                      /\ xy = get_tile_xy(pe.tile_index, a)
                      /\ xy.y * a + xy.x = pe.tile_index
               /\ \A t \in GridRange(a) :
                      LET g == get_tile_xy(t, a)
                      IN  /\ g.x \in 0..(a - 1) /\ g.y \in 0..(rows - 1)
                          /\ g.y * a + g.x = t
               /\ \A t, u \in GridRange(a) :
                      get_tile_xy(t, a) = get_tile_xy(u, a) => t = u
               /\ \A x \in 0..(a - 1), y \in 0..(rows - 1) :
                      \E t \in GridRange(a) : get_tile_xy(t, a) = [x |-> x, y |-> y]
    /\ get_tile_xy(37, 10) = [x |-> 7, y |-> 3]
    /\ get_tile_xy(10, 10) = [x |-> 0, y |-> 1]

C8_Witness ==
    /\ mapped = "ok"
    /\ across_cfg = Digits(10) /\ rows = 4
    /\ pe.tile_index = 37
    /\ xy = [x |-> 7, y |-> 3]

====
